---- MODULE Spec2Model ----
(***************************************************************************)
(* Recording session of the CookingRecorder component                      *)
(* (src/src/components/CookingRecorder.tsx) inside the Index page          *)
(* (src/src/pages/Index.tsx).                                              *)
(*                                                                         *)
(* One behaviour is the life of one component instance: it is mounted in   *)
(* Init, and unmounted when the page leaves appState 'recording'.  The     *)
(* platform objects it created (device streams, MediaRecorders, interval   *)
(* timers, pending getUserMedia promises) outlive the instance, and their  *)
(* callbacks keep running on the closures they captured.                   *)
(*                                                                         *)
(* The operations are the component's handlers.  As in the specification   *)
(* of the session they are callable in every phase; what a call does is    *)
(* decided by the guard the handler itself evaluates.  All handlers and    *)
(* callbacks run on one event loop, so each is one atomic step.            *)
(*                                                                         *)
(* Platform (not part of the repository): getUserMedia resolves or rejects *)
(* later, in a task of its own; MediaRecorder.stop() makes the recorder    *)
(* inactive at once and delivers the last dataavailable event and then the *)
(* stop event together in one later task; while a recorder is recording    *)
(* it produces chunks at an interval of the platform's choosing, each      *)
(* delivered in a dataavailable event with empty or non-empty data.        *)
(* The toasts the handlers show are display only and are left out.         *)
(*                                                                         *)
(* lastOp and prePhase are history variables: they record which handler    *)
(* or callback ran last and in which phase, and no action reads them.      *)
(*                                                                         *)
(* Spec and FairSpec are the recording session.  PageSpec is the Index     *)
(* page by itself, FmtSpec the function formatDuration, CommunitySpec the  *)
(* like and save handlers of src/src/pages/Community.tsx; each leaves the  *)
(* variables of the others as they are.                                    *)
(***************************************************************************)
EXTENDS Integers, Sequences, FiniteSets, TLC

\* ------------------------------------------------------------------ bounds
\* What one behaviour may use up, counted together: getUserMedia calls,
\* MediaRecorders (each with its interval timer), dataavailable events
\* delivered while recording, and seconds on the elapsed-seconds counter.
MaxUsed == 4

\* ------------------------------------------------------------------- state
VARIABLES
  appState,          \* Index: 'home' | 'recording' | 'processing'
  currentRecording,  \* Index: <<>> (null) or <<result>>
  mounted,           \* the CookingRecorder instance is rendered
  recordingState,    \* useState<RecordingState>
  hasPermissions,    \* useState(false)
  streamRef,         \* useRef<MediaStream>: 0 (null) or a stream id
  mediaRecorderRef,  \* useRef<MediaRecorder>: 0 (null) or a recorder id
  chunksRef,         \* useRef<Blob[]>: sequence of chunks
  intervalRef,       \* useRef<Timeout>: 0 (null) or a timer id
  requests,          \* getUserMedia calls so far, each with its outcome
  streams,           \* device streams handed out: sequence of "live"/"ended"
  recorders,         \* MediaRecorders created: sequence of records
  timers,            \* ids of the interval timers that are active
  results,           \* values passed to onRecordingComplete, in call order
  lastOp,            \* history: the last handler or callback that ran
  prePhase,          \* history: the phase in which it ran
  fmtSeconds,        \* formatDuration: its argument
  fmtText,           \* formatDuration: the string returned, <<>> before the call
  recipeRow,         \* database: the recipe's row in table recipes
  likeRow,           \* database: the user's row in recipe_likes exists
  saveRow,           \* database: the user's row in recipe_saves exists
  recipes,           \* Community: the recipe as held in useState<Recipe[]>
  calls              \* Community: handleLike / handleSave invocations so far

compVars == <<recordingState, hasPermissions, streamRef, mediaRecorderRef,
              chunksRef, intervalRef>>
platVars == <<requests, streams, recorders, timers>>
pageVars == <<appState, currentRecording, mounted, results>>
progVars == <<compVars, platVars, pageVars>>
fmtVars  == <<fmtSeconds, fmtText>>
communityVars == <<recipeRow, likeRow, saveRow, recipes, calls>>
vars     == <<progVars, lastOp, prePhase, fmtVars, communityVars>>

Null == <<>>
Some(x) == <<x>>

\* The phase of the session, read off the component's state the way the
\* render does: no access / not recording / recording / paused.  A session
\* that is not recording is ready until its first start and stopped after.
Phase ==
  IF ~hasPermissions THEN "idle"
  ELSE IF recordingState.isRecording
       THEN (IF recordingState.isPaused THEN "paused" ELSE "recording")
       ELSE (IF mediaRecorderRef = 0 THEN "ready" ELSE "stopped")

InitialRecordingState ==
  [isRecording |-> FALSE, isPaused |-> FALSE, duration |-> 0,
   videoBlob |-> Null, audioBlob |-> Null]

\* no call of formatDuration is being looked at
FmtIdle == fmtSeconds = 0 /\ fmtText = <<>>

\* the Community page is not rendered
CommunityIdle ==
  /\ recipeRow = [likes_count |-> 0, saves_count |-> 0]
  /\ likeRow = FALSE
  /\ saveRow = FALSE
  /\ recipes = [likes_count |-> 0, saves_count |-> 0]
  /\ calls = <<>>

Init ==
  /\ appState = "recording"
  /\ currentRecording = Null
  /\ mounted = TRUE
  /\ recordingState = InitialRecordingState
  /\ hasPermissions = FALSE
  /\ streamRef = 0
  /\ mediaRecorderRef = 0
  /\ chunksRef = <<>>
  /\ intervalRef = 0
  /\ requests = <<>>
  /\ streams = <<>>
  /\ recorders = <<>>
  /\ timers = {}
  /\ results = <<>>
  /\ lastOp = "init"
  /\ prePhase = "idle"
  /\ FmtIdle
  /\ CommunityIdle

Ran(op) == lastOp' = op /\ prePhase' = Phase

RECURSIVE SumEmitted(_)
\* dataavailable events delivered so far by the first k recorders
SumEmitted(k) ==
  IF k = 0 THEN 0 ELSE Len(recorders[k].emitted) + SumEmitted(k - 1)

\* events delivered while recording: every event but the one of a stop task
PeriodicCount ==
  SumEmitted(Len(recorders))
    - Cardinality({r \in 1..Len(recorders) : recorders[r].flush = "done"})

\* what the behaviour has used up so far
Used ==
  Len(requests) + Len(recorders) + PeriodicCount + recordingState.duration

\* ------------------------------------------------------ requestPermissions
\* A getUserMedia call.  retry is history: the call was made after an
\* earlier call had been rejected.
NewRequest(log) ==
  [outcome |-> "pending",
   retry |-> (\E i \in 1..Len(log) : log[i].outcome = "denied")]

Pending == {i \in 1..Len(requests) : requests[i].outcome = "pending"}

\* The handler up to its await: getUserMedia is called, the promise pends.
requestPermissions ==
  /\ mounted
  /\ Used < MaxUsed
  /\ requests' = Append(requests, NewRequest(requests))
  /\ Ran("requestAccess")
  /\ UNCHANGED <<fmtVars, communityVars>>
  /\ UNCHANGED <<compVars, pageVars, streams, recorders, timers>>

\* hasPermissions after the try block / after the catch block
PermissionGranted(hp) == TRUE

\* a catch block that raises the access flag
PermissionDenied_Sets(hp) == TRUE

PermissionDenied(hp) == hp

\* a binding that keeps a stream that is already bound
BindStream_KeepFirst(ref, stream) == IF ref # 0 THEN ref ELSE stream

\* streamRef.current = stream: the ref after the assignment
BindStream(ref, stream) == stream

\* The promise resolves: the continuation after the await.  The stream has
\* been opened and the ref, a plain object, is assigned whether or not the
\* instance is still mounted; state setters of an unmounted instance do
\* nothing.
GrantAccess(i) ==
  /\ i \in Pending
  /\ requests' = [requests EXCEPT ![i].outcome = "granted"]
  /\ streams' = Append(streams, "live")
  /\ streamRef' = BindStream(streamRef, Len(streams) + 1)
  /\ hasPermissions' = (IF mounted THEN PermissionGranted(hasPermissions)
                                   ELSE hasPermissions)
  /\ Ran("grant")
  /\ UNCHANGED <<fmtVars, communityVars>>
  /\ UNCHANGED <<recordingState, mediaRecorderRef, chunksRef, intervalRef,
                 recorders, timers, pageVars>>

\* The promise rejects: the catch block.
DenyAccess(i) ==
  /\ i \in Pending
  /\ requests' = [requests EXCEPT ![i].outcome = "denied"]
  /\ hasPermissions' = (IF mounted THEN PermissionDenied(hasPermissions)
                                   ELSE hasPermissions)
  /\ Ran("deny")
  /\ UNCHANGED <<fmtVars, communityVars>>
  /\ UNCHANGED <<recordingState, streamRef, mediaRecorderRef, chunksRef,
                 intervalRef, streams, recorders, timers, pageVars>>

\* ---------------------------------------------------------- MediaRecorder
\* new MediaRecorder(stream) followed by start(): the recorder as created by
\* startRecording.  capturedDuration is recordingState.duration as the onstop
\* closure sees it: the value of the render that created startRecording.
NewRecorder(stream, d) ==
  [state |-> "recording", stream |-> stream, capturedDuration |-> d,
   flush |-> "none", emitted |-> <<>>, elapsedAtStop |-> 0]

\* MediaRecorder.stop(): inactive at once, the task that delivers the last
\* data and the stop event pending.
\* elapsedAtStop is history: the elapsed-seconds counter at this transition.
RecorderStop(rec, elapsed) ==
  IF rec.state = "inactive" THEN rec
  ELSE [rec EXCEPT !.state = "inactive", !.flush = "pending",
                   !.elapsedAtStop = elapsed]

\* MediaRecorder.pause() and resume()
RecorderPause(rec) ==
  IF rec.state = "recording" THEN [rec EXCEPT !.state = "paused"] ELSE rec

RecorderResume(rec) ==
  IF rec.state = "paused" THEN [rec EXCEPT !.state = "recording"] ELSE rec

\* ---------------------------------------------------------- startRecording
\* start without the check of the bound stream
StartGuard_None == TRUE

StartGuard == streamRef # 0

StartState(prev) ==
  [prev EXCEPT !.isRecording = TRUE, !.isPaused = FALSE, !.duration = 0]

startRecording ==
  /\ mounted
  /\ IF StartGuard
       THEN /\ Used < MaxUsed
            /\ chunksRef' = <<>>
            /\ recorders' = Append(recorders,
                              NewRecorder(streamRef, recordingState.duration))
            /\ mediaRecorderRef' = Len(recorders) + 1
            /\ recordingState' = StartState(recordingState)
            /\ intervalRef' = Len(recorders) + 1
            /\ timers' = timers \cup {Len(recorders) + 1}
            /\ UNCHANGED <<hasPermissions, streamRef>>
       ELSE UNCHANGED <<compVars, recorders, timers>>
  /\ Ran("start")
  /\ UNCHANGED <<fmtVars, communityVars>>
  /\ UNCHANGED <<requests, streams, pageVars>>

\* ----------------------------------------------------------- stopRecording
StopGuard == mediaRecorderRef # 0 /\ recordingState.isRecording

\* stop that leaves the paused flag as it is
StopState_KeepPaused(prev) == [prev EXCEPT !.isRecording = FALSE]

StopState(prev) == [prev EXCEPT !.isRecording = FALSE, !.isPaused = FALSE]

\* if (intervalRef.current) clearInterval(intervalRef.current)
ClearInterval(active, ref) == IF ref # 0 THEN active \ {ref} ELSE active

stopRecording ==
  /\ mounted
  /\ IF StopGuard
       THEN /\ recorders' = [recorders EXCEPT ![mediaRecorderRef] =
                               RecorderStop(@, recordingState.duration)]
            /\ recordingState' = StopState(recordingState)
            /\ timers' = ClearInterval(timers, intervalRef)
       ELSE UNCHANGED <<recordingState, recorders, timers>>
  /\ Ran("stop")
  /\ UNCHANGED <<fmtVars, communityVars>>
  /\ UNCHANGED <<hasPermissions, streamRef, mediaRecorderRef, chunksRef,
                 intervalRef, requests, streams, pageVars>>

\* ---------------------------------------------------------- pauseRecording
PauseGuard ==
  mediaRecorderRef # 0 /\ recordingState.isRecording
                       /\ ~recordingState.isPaused

\* pause that forgets to set the paused flag
PauseState_NoFlag(prev) == prev

PauseState(prev) == [prev EXCEPT !.isPaused = TRUE]

pauseRecording ==
  /\ mounted
  /\ IF PauseGuard
       THEN /\ recorders' = [recorders EXCEPT ![mediaRecorderRef] =
                               RecorderPause(@)]
            /\ recordingState' = PauseState(recordingState)
       ELSE UNCHANGED <<recordingState, recorders>>
  /\ Ran("pause")
  /\ UNCHANGED <<fmtVars, communityVars>>
  /\ UNCHANGED <<hasPermissions, streamRef, mediaRecorderRef, chunksRef,
                 intervalRef, requests, streams, timers, pageVars>>

\* --------------------------------------------------------- resumeRecording
ResumeGuard ==
  mediaRecorderRef # 0 /\ recordingState.isRecording
                       /\ recordingState.isPaused

ResumeState(prev) == [prev EXCEPT !.isPaused = FALSE]

resumeRecording ==
  /\ mounted
  /\ IF ResumeGuard
       THEN /\ recorders' = [recorders EXCEPT ![mediaRecorderRef] =
                               RecorderResume(@)]
            /\ recordingState' = ResumeState(recordingState)
       ELSE UNCHANGED <<recordingState, recorders>>
  /\ Ran("resume")
  /\ UNCHANGED <<fmtVars, communityVars>>
  /\ UNCHANGED <<hasPermissions, streamRef, mediaRecorderRef, chunksRef,
                 intervalRef, requests, streams, timers, pageVars>>

\* ------------------------------------------------------------ duration tick
\* setRecordingState(prev => prev.isPaused ? prev : {..., duration + 1})
\* a tick that ignores the paused flag
TickUpdate_Always(prev) == [prev EXCEPT !.duration = @ + 1]

TickUpdate(prev) ==
  IF prev.isPaused THEN prev ELSE [prev EXCEPT !.duration = @ + 1]

\* The callback of an active interval timer.  The state setter of an
\* unmounted instance does nothing.
Tick(t) ==
  /\ t \in timers
  /\ (mounted /\ TickUpdate(recordingState) # recordingState) => Used < MaxUsed
  /\ recordingState' = (IF mounted THEN TickUpdate(recordingState)
                                   ELSE recordingState)
  /\ Ran("tick")
  /\ UNCHANGED <<fmtVars, communityVars>>
  /\ UNCHANGED <<hasPermissions, streamRef, mediaRecorderRef, chunksRef,
                 intervalRef, platVars, pageVars>>

\* --------------------------------------------------------- ondataavailable
\* event.data: the n-th chunk produced by recorder r, of the given size
Chunk(r, n, size) == [rec |-> r, n |-> n, size |-> size]


\* if (event.data.size > 0) chunksRef.current.push(event.data)
OnDataAvailable(chunks, data) ==
  IF data.size > 0 THEN Append(chunks, data) ELSE chunks

\* A dataavailable event of recorder r while it is recording.
DataAvailable(r, size) ==
  /\ r \in 1..Len(recorders)
  /\ recorders[r].state = "recording"
  /\ Used < MaxUsed
  /\ LET data == Chunk(r, Len(recorders[r].emitted) + 1, size)
     IN /\ recorders' = [recorders EXCEPT ![r].emitted = Append(@, data)]
        /\ chunksRef' = OnDataAvailable(chunksRef, data)
  /\ Ran("data")
  /\ UNCHANGED <<fmtVars, communityVars>>
  /\ UNCHANGED <<recordingState, hasPermissions, streamRef, mediaRecorderRef,
                 intervalRef, requests, streams, timers, pageVars>>

\* ------------------------------------------------------------------ onstop
\* new Blob(chunksRef.current, {type: 'video/webm'})
MakeBlob(chunks) == chunks

\* new Date(): stop events are delivered at successive instants, the k-th
\* of the behaviour at instant k.
Now == Len(results) + 1

\* Date.prototype.toISOString of an instant
ToISOString(now) ==
  <<"2025-07-26T02:28:51.000Z", "2025-07-26T02:28:52.000Z",
    "2025-07-26T02:28:53.000Z", "2025-07-26T02:28:54.000Z",
    "2025-07-26T02:28:55.000Z", "2025-07-26T02:28:56.000Z">>[now]

\* the value handed to onRecordingComplete (rec is history: the recorder)
RecordingResult(blob, rec, r, now) ==
  [videoBlob |-> blob, duration |-> rec.capturedDuration,
   timestamp |-> ToISOString(now), rec |-> r]

\* the completion callback called twice
Emit_Twice(log, result) == Append(Append(log, result), result)

\* onRecordingComplete(...) called once by the handler
Emit(log, result) == Append(log, result)

\* a handler that stores the recording without its timestamp
HandleRecordingComplete_NoTimestamp(recording) ==
  Some([videoBlob |-> recording.videoBlob, duration |-> recording.duration,
        rec |-> recording.rec])

\* Index.handleRecordingComplete: currentRecording after
\* setCurrentRecording(recording)
HandleRecordingComplete(recording) == Some(recording)

\* Index renders RecipeProcessor, and the recording prop it passes
RecipeProcessorRendered == appState = "processing" /\ currentRecording # Null

RecordingProp == currentRecording[1]

\* The task queued by stop() of recorder r: it fires the last dataavailable
\* event and then the stop event, so ondataavailable and onstop run back to
\* back.  In onstop the page's handleRecordingComplete leaves appState
\* 'recording' and so unmounts the recorder component.
OnStop(r, size) ==
  /\ r \in 1..Len(recorders)
  /\ recorders[r].flush = "pending"
  /\ LET data == Chunk(r, Len(recorders[r].emitted) + 1, size)
         blob == MakeBlob(OnDataAvailable(chunksRef, data))
         result == RecordingResult(blob, recorders[r], r, Now)
     IN /\ recorders' = [recorders EXCEPT ![r].emitted = Append(@, data),
                                          ![r].flush = "done"]
        /\ chunksRef' = OnDataAvailable(chunksRef, data)
        /\ recordingState' =
             (IF mounted THEN [recordingState EXCEPT !.videoBlob = Some(blob)]
                         ELSE recordingState)
        /\ results' = Emit(results, result)
        /\ currentRecording' = HandleRecordingComplete(result)
  /\ appState' = "processing"
  /\ mounted' = FALSE
  /\ Ran("onstop")
  /\ UNCHANGED <<fmtVars, communityVars>>
  /\ UNCHANGED <<hasPermissions, streamRef, mediaRecorderRef, intervalRef,
                 requests, streams, timers>>

\* ------------------------------------------------------------- abandonment
\* The location changes away from /record-recipe: Index sets appState 'home'
\* and no longer renders the recorder.  The component has no cleanup.
NavigateAway ==
  /\ mounted
  /\ appState = "recording"
  /\ appState' = "home"
  /\ mounted' = FALSE
  /\ Ran("unmount")
  /\ UNCHANGED <<fmtVars, communityVars>>
  /\ UNCHANGED <<compVars, platVars, currentRecording, results>>

\* -------------------------------------------------------------------- spec
Next ==
  \/ requestPermissions
  \/ \E i \in 1..MaxUsed : GrantAccess(i)
  \/ \E i \in 1..MaxUsed : DenyAccess(i)
  \/ startRecording
  \/ stopRecording
  \/ pauseRecording
  \/ resumeRecording
  \/ \E t \in 1..MaxUsed : Tick(t)
  \/ \E r \in 1..MaxUsed, size \in {0, 1} : DataAvailable(r, size)
  \/ \E r \in 1..MaxUsed, size \in {0, 1} : OnStop(r, size)
  \/ NavigateAway

Spec == Init /\ [][Next]_vars

\* The event loop runs every task that is queued: the task a stop() queued
\* for recorder r is eventually run.
FairSpec ==
  Spec /\ \A r \in 1..MaxUsed : WF_vars(\E size \in {0, 1} : OnStop(r, size))

\* =============================================================== page flow
\* The Index page by itself.  The recorder it renders is reduced to what the
\* page sees of it: an instance that is mounted while appState is
\* 'recording', recorders that have been stopped, and the stop task of each,
\* which calls onRecordingComplete whether or not its instance is still
\* rendered.  A recorder instance that is mounted is a fresh one.
PageInit ==
  /\ appState = "home"
  /\ currentRecording = Null
  /\ mounted = FALSE
  /\ recordingState = InitialRecordingState
  /\ hasPermissions = FALSE
  /\ streamRef = 0
  /\ mediaRecorderRef = 0
  /\ chunksRef = <<>>
  /\ intervalRef = 0
  /\ requests = <<>>
  /\ streams = <<>>
  /\ recorders = <<>>
  /\ timers = {}
  /\ results = <<>>
  /\ lastOp = "init"
  /\ prePhase = "idle"
  /\ FmtIdle
  /\ CommunityIdle

\* Index renders CookingRecorder exactly when appState is 'recording'; an
\* instance that was not rendered before starts from its initial state.
Render ==
  /\ mounted' = (appState' = "recording")
  /\ IF mounted' /\ ~mounted
       THEN /\ recordingState' = InitialRecordingState
            /\ hasPermissions' = FALSE
            /\ streamRef' = 0
            /\ mediaRecorderRef' = 0
            /\ chunksRef' = <<>>
            /\ intervalRef' = 0
       ELSE UNCHANGED compVars

\* the paths the router gives to Index that the effect tells apart
Paths == {"/", "/record-recipe", "/recipes"}

\* useEffect on location.pathname
RouteAppState(path) == IF path = "/record-recipe" THEN "recording" ELSE "home"

RouteChanged(path) ==
  /\ appState' = RouteAppState(path)
  /\ Render
  /\ Ran("route")
  /\ UNCHANGED <<fmtVars, communityVars>>
  /\ UNCHANGED <<currentRecording, results, platVars>>

\* The rendered recorder starts a recording and stops it: a stopped
\* MediaRecorder whose stop task is queued.
RecorderRuns ==
  /\ mounted
  /\ Used < MaxUsed
  /\ recorders' = Append(recorders,
                         RecorderStop(NewRecorder(0, 0), 0))
  /\ Ran("record")
  /\ UNCHANGED <<fmtVars, communityVars>>
  /\ UNCHANGED <<compVars, pageVars, requests, streams, timers>>

\* startNewRecording that stays on the processing view
NewRecordingAppState_Stays(as) == as

\* setAppState('recording') of startNewRecording
NewRecordingAppState(as) == "recording"

startNewRecording ==
  /\ appState' = NewRecordingAppState(appState)
  /\ currentRecording' = Null
  /\ Render
  /\ Ran("newRecording")
  /\ UNCHANGED <<fmtVars, communityVars>>
  /\ UNCHANGED <<results, platVars>>

goBackToRecording ==
  /\ appState' = "recording"
  /\ Render
  /\ Ran("backToRecording")
  /\ UNCHANGED <<fmtVars, communityVars>>
  /\ UNCHANGED <<currentRecording, results, platVars>>

goBackToHome ==
  /\ appState' = "home"
  /\ Render
  /\ Ran("backToHome")
  /\ UNCHANGED <<fmtVars, communityVars>>
  /\ UNCHANGED <<currentRecording, results, platVars>>

\* navigate('/dashboard'): the router replaces Index by the dashboard, and
\* the Index that is rendered on return is a new one, in its initial state.
handleRecipeSave ==
  /\ appState' = "home"
  /\ currentRecording' = Null
  /\ Render
  /\ Ran("save")
  /\ UNCHANGED <<fmtVars, communityVars>>
  /\ UNCHANGED <<results, platVars>>

PageNext ==
  \/ \E path \in Paths : RouteChanged(path)
  \/ RecorderRuns
  \/ \E r \in 1..MaxUsed, size \in {0, 1} : OnStop(r, size)
  \/ startNewRecording
  \/ goBackToRecording
  \/ goBackToHome
  \/ handleRecipeSave

PageSpec == PageInit /\ [][PageNext]_vars

\* ========================================================= formatDuration
\* Strings are sequences of one-character strings.
MaxSeconds == 6005

DigitChars == <<"0", "1", "2", "3", "4", "5", "6", "7", "8", "9">>

RECURSIVE toString(_)
\* Number.prototype.toString of a non-negative integer
toString(n) ==
  IF n < 10 THEN <<DigitChars[n + 1]>>
  ELSE toString(n \div 10) \o <<DigitChars[(n % 10) + 1]>>

\* a padStart that pads nothing
PadStart_None(str, targetLength, padString) == str

RECURSIVE PadStart(_, _, _)
\* String.prototype.padStart with a one-character pad string
PadStart(str, targetLength, padString) ==
  IF Len(str) >= targetLength THEN str
  ELSE PadStart(<<padString>> \o str, targetLength, padString)

formatDuration(seconds) ==
  LET mins == seconds \div 60
      secs == seconds % 60
  IN PadStart(toString(mins), 2, "0") \o <<":">>
       \o PadStart(toString(secs), 2, "0")

FmtInit ==
  /\ fmtSeconds \in 0..MaxSeconds
  /\ fmtText = <<>>
  /\ appState = "recording"
  /\ currentRecording = Null
  /\ mounted = TRUE
  /\ recordingState = InitialRecordingState
  /\ hasPermissions = FALSE
  /\ streamRef = 0
  /\ mediaRecorderRef = 0
  /\ chunksRef = <<>>
  /\ intervalRef = 0
  /\ requests = <<>>
  /\ streams = <<>>
  /\ recorders = <<>>
  /\ timers = {}
  /\ results = <<>>
  /\ lastOp = "init"
  /\ prePhase = "idle"
  /\ CommunityIdle

\* the render calls formatDuration on the elapsed seconds
Format ==
  /\ fmtText = <<>>
  /\ fmtText' = formatDuration(fmtSeconds)
  /\ UNCHANGED <<fmtSeconds, progVars, lastOp, prePhase, communityVars>>

FmtNext == Format

FmtSpec == FmtInit /\ [][FmtNext]_vars

\* ============================================================== community
\* The Community page (src/src/pages/Community.tsx) for one signed-in user and
\* one recipe.  handleLike and handleSave are async: each await ends a step,
\* and other invocations run in between.  The database client returns the
\* error of a request that fails, or of an insert the UNIQUE(user_id,
\* recipe_id) constraint rejects, in its result, which the handlers do not
\* look at; a failure it throws instead is caught by the handler.  Nothing in
\* the repository writes recipes.likes_count or recipes.saves_count.
MaxCalls == 3

MaxLoaded == 1

CommunityInit ==
  /\ recipeRow \in [likes_count : 0..MaxLoaded, saves_count : 0..MaxLoaded]
  /\ likeRow = FALSE
  /\ saveRow = FALSE
  /\ recipes = recipeRow
  /\ calls = <<>>
  /\ FmtIdle
  /\ appState = "home"
  /\ currentRecording = Null
  /\ mounted = FALSE
  /\ recordingState = InitialRecordingState
  /\ hasPermissions = FALSE
  /\ streamRef = 0
  /\ mediaRecorderRef = 0
  /\ chunksRef = <<>>
  /\ intervalRef = 0
  /\ requests = <<>>
  /\ streams = <<>>
  /\ recorders = <<>>
  /\ timers = {}
  /\ results = <<>>
  /\ lastOp = "init"
  /\ prePhase = "idle"

CommunityFrame == UNCHANGED <<progVars, lastOp, prePhase, fmtVars, recipeRow>>

\* the user's row of the table the handler works on
Row(kind) == IF kind = "like" THEN likeRow ELSE saveRow

\* handleLike(recipeId) / handleSave(recipeId) up to the first await: the
\* select is sent.  effect is history: what the call's write did to the table.
Invoke(kind) ==
  /\ Len(calls) < MaxCalls
  /\ calls' = Append(calls, [kind |-> kind, pc |-> "select",
                             existing |-> FALSE, effect |-> "none"])
  /\ CommunityFrame
  /\ UNCHANGED <<likeRow, saveRow, recipes>>

\* The select returns: existingLike / existingSave is the row, or null when
\* there is none or the request failed.  The handler sends its write.
SelectReturns(c, ok) ==
  /\ c \in 1..Len(calls)
  /\ calls[c].pc = "select"
  /\ calls' = [calls EXCEPT ![c].existing = ok /\ Row(calls[c].kind),
                            ![c].pc = "write"]
  /\ CommunityFrame
  /\ UNCHANGED <<likeRow, saveRow, recipes>>

\* what a write that reaches the table does: delete removes the row if it is
\* there, insert adds it unless the UNIQUE constraint rejects it
RowAfter(existing, row) == IF existing THEN FALSE ELSE TRUE

WriteEffect(existing, row) ==
  IF existing THEN (IF row THEN "deleted" ELSE "none")
              ELSE (IF row THEN "none" ELSE "inserted")

\* The delete or insert of call c is served.  outcome "ok": it reaches the
\* table; "error": it fails and the client returns the error; "thrown": it
\* fails and the client throws, which takes the handler to its catch block.
WriteServed(c, outcome) ==
  /\ c \in 1..Len(calls)
  /\ calls[c].pc = "write"
  /\ LET kind == calls[c].kind
         row == Row(kind)
         after == IF outcome = "ok" THEN RowAfter(calls[c].existing, row)
                                    ELSE row
     IN /\ likeRow' = (IF kind = "like" THEN after ELSE likeRow)
        /\ saveRow' = (IF kind = "save" THEN after ELSE saveRow)
        /\ calls' = [calls EXCEPT
                       ![c].effect = (IF outcome = "ok"
                                        THEN WriteEffect(calls[c].existing, row)
                                        ELSE "none"),
                       ![c].pc = (IF outcome = "thrown" THEN "done"
                                                        ELSE "respond")]
  /\ CommunityFrame
  /\ UNCHANGED recipes

\* setRecipes(prev => ...): existing ? count - 1 : count + 1
UpdateCount(count, existing) == IF existing THEN count - 1 ELSE count + 1

\* The handler continues after its write: the local state update.
Continue(c) ==
  /\ c \in 1..Len(calls)
  /\ calls[c].pc = "respond"
  /\ recipes' =
       (IF calls[c].kind = "like"
          THEN [recipes EXCEPT !.likes_count =
                                  UpdateCount(@, calls[c].existing)]
          ELSE [recipes EXCEPT !.saves_count =
                                  UpdateCount(@, calls[c].existing)])
  /\ calls' = [calls EXCEPT ![c].pc = "done"]
  /\ CommunityFrame
  /\ UNCHANGED <<likeRow, saveRow>>

\* The page is left and opened again once every handler has finished:
\* fetchCommunityRecipes loads the recipe from table recipes.
fetchCommunityRecipes ==
  /\ \A c \in 1..Len(calls) : calls[c].pc = "done"
  /\ recipes # recipeRow
  /\ recipes' = recipeRow
  /\ CommunityFrame
  /\ UNCHANGED <<likeRow, saveRow, calls>>

CommunityNext ==
  \/ \E kind \in {"like", "save"} : Invoke(kind)
  \/ \E c \in 1..MaxCalls, ok \in BOOLEAN : SelectReturns(c, ok)
  \/ \E c \in 1..MaxCalls, outcome \in {"ok", "error", "thrown"} :
        WriteServed(c, outcome)
  \/ \E c \in 1..MaxCalls : Continue(c)
  \/ fetchCommunityRecipes

CommunitySpec == CommunityInit /\ [][CommunityNext]_vars

\* ================================================================== claims
Elapsed == recordingState.duration

IsNonEmpty(c) == c.size > 0

ResultsOf(r) == {i \in 1..Len(results) : results[i].rec = r}

\* C1: every operation of the transition table, taken in its source phase,
\* leaves the session in the target phase of that transition: access granted
\* idle->ready, start ready->recording, pause recording->paused, resume
\* paused->recording, stop recording->stopped and paused->stopped.
C1_TransitionTargets ==
  [][/\ (lastOp' = "grant" /\ mounted /\ Phase = "idle" => Phase' = "ready")
     /\ (lastOp' = "start" /\ Phase = "ready" => Phase' = "recording")
     /\ (lastOp' = "pause" /\ Phase = "recording" => Phase' = "paused")
     /\ (lastOp' = "resume" /\ Phase = "paused" => Phase' = "recording")
     /\ (lastOp' = "stop" /\ Phase \in {"recording", "paused"}
           => Phase' = "stopped")]_vars

\* a paused recording that holds chunks has been stopped
C1_Witness ==
  /\ lastOp = "stop" /\ prePhase = "paused" /\ Phase = "stopped"
  /\ Elapsed > 0 /\ Len(chunksRef) > 0

\* C2: an operation invoked outside the transition table (start when the
\* phase is not ready, pause when not recording, resume when not paused, stop
\* when neither recording nor paused) changes nothing: phase, elapsed
\* seconds, chunk accumulator, recorder, timer and emitted results.
C2_InvalidOpsAreNoOps ==
  [][(\/ lastOp' = "start" /\ Phase # "ready"
      \/ lastOp' = "pause" /\ Phase # "recording"
      \/ lastOp' = "resume" /\ Phase # "paused"
      \/ lastOp' = "stop" /\ Phase \notin {"recording", "paused"})
        => UNCHANGED progVars]_vars

\* C3: the duration of every emitted RecordingResult is the value the
\* elapsed-seconds counter had at the stop transition of its recording.
C3_DurationIsElapsedAtStop ==
  \A i \in 1..Len(results) :
     results[i].duration = recorders[results[i].rec].elapsedAtStop

\* C4: once the session is stopped, or abandoned in any phase, none of the
\* device streams it acquired is still live.
C4_StreamsReleased ==
  (~mounted \/ Phase = "stopped") =>
     \A k \in 1..Len(streams) : streams[k] # "live"

\* C5: the artifact of every emitted result is the sequence of the non-empty
\* chunks its recorder emitted, in emission order: nothing lost, duplicated,
\* reordered or foreign.
C5_ArtifactIsEmittedChunks ==
  \A i \in 1..Len(results) :
     results[i].videoBlob =
        SelectSeq(recorders[results[i].rec].emitted, IsNonEmpty)

\* C6: elapsed-seconds never decreases except at the start of a recording,
\* and a tick increases it only in phase recording.
C6_ElapsedMonotonic ==
  [][/\ (lastOp' # "start" => Elapsed' >= Elapsed)
     /\ (lastOp' = "tick" /\ Elapsed' # Elapsed => Phase = "recording")]_vars

\* the stop task of recorder r is queued and has not run yet
StopPending(r) == r \in 1..Len(recorders) /\ recorders[r].flush = "pending"

\* C7: every transition to stopped queues exactly one stop task, a result is
\* emitted only by that task, no recorder ever emits a second result, and
\* the result of every stopped recording is eventually emitted.
C7_OneResultPerStop ==
  /\ \A r \in 1..MaxUsed : StopPending(r) ~> (Cardinality(ResultsOf(r)) = 1)
  /\ [](\A r \in 1..Len(recorders) :
          Cardinality(ResultsOf(r)) =
             (IF recorders[r].flush = "done" THEN 1 ELSE 0))
  /\ [][/\ (lastOp' = "stop" /\ Phase \in {"recording", "paused"}
              => /\ results' = results
                 /\ recorders[mediaRecorderRef].flush = "none"
                 /\ recorders'[mediaRecorderRef].flush = "pending"
                 /\ \A r \in 1..Len(recorders) :
                      r # mediaRecorderRef
                        => recorders'[r].flush = recorders[r].flush)
        /\ (results' # results
              => /\ lastOp' = "onstop"
                 /\ Len(results') = Len(results) + 1
                 /\ recorders[results'[Len(results')].rec].flush = "pending"
                 /\ recorders'[results'[Len(results')].rec].flush = "done")
        /\ (\A r \in 1..Len(recorders) :
              recorders[r].flush = "none" /\ recorders'[r].flush # "none"
                 => lastOp' = "stop" /\ Phase \in {"recording", "paused"})]_vars

\* two recordings of the session have each delivered their one result
C7_Witness ==
  /\ Len(results) = 2
  /\ \A r \in 1..2 : recorders[r].flush = "done"

\* C8: start in phase idle changes nothing, and as long as the session has
\* no access there is no recorder, no timer and no result.
C8_StartInIdleIsNoOp ==
  /\ [](~hasPermissions =>
          recorders = <<>> /\ timers = {} /\ results = <<>>
          /\ recordingState.videoBlob = Null)
  /\ [][lastOp' = "start" /\ Phase = "idle"
          => UNCHANGED progVars /\ Phase' = "idle"]_vars

C8_Witness == lastOp = "start" /\ prePhase = "idle" /\ Phase = "idle"

\* the Setup Camera & Microphone button is rendered
SetupButtonRendered == ~hasPermissions

\* C9: a rejected requestAccess changes nothing in the component; rejected
\* in the pre-access state (phase idle, no stream bound) it leaves the session
\* without access, without stream, in phase idle, with the button that issues
\* requestAccess rendered.
C9_DeniedStaysPreAccess ==
  [][lastOp' = "deny"
       => /\ UNCHANGED <<compVars, pageVars, streams, recorders, timers>>
          /\ (Phase = "idle" /\ streamRef = 0
                => /\ Phase' = "idle" /\ ~hasPermissions' /\ streamRef' = 0
                   /\ (mounted => SetupButtonRendered'))]_vars

\* a request issued after a rejection has been granted
C9_Witness ==
  /\ lastOp = "grant" /\ prePhase = "idle" /\ Phase = "ready"
  /\ \E i \in 1..Len(requests) :
        requests[i].retry /\ requests[i].outcome = "granted"

\* C10: a pause leaves the session paused with elapsed-seconds untouched,
\* also when it is already paused, and no tick in between changes either.
C10_PauseIdempotent ==
  [][/\ (lastOp' = "pause" /\ Phase \in {"recording", "paused"}
           => Phase' = "paused" /\ Elapsed' = Elapsed)
     /\ (lastOp' = "tick" /\ Phase = "paused"
           => Phase' = "paused" /\ Elapsed' = Elapsed)]_vars

\* a second pause has run on a paused session
C10_Witness ==
  /\ lastOp = "pause" /\ prePhase = "paused" /\ Phase = "paused"
  /\ Elapsed > 0

\* the device streams handed to the session that have not been released
LiveStreams == {k \in 1..Len(streams) : streams[k] = "live"}

\* C11: in every reachable state at most one duration timer is active, over
\* any sequence of start, pause, resume, stop and repeated start calls.
C11_AtMostOneTimer == Cardinality(timers) <= 1

\* C12: over any sequence of requestAccess calls, repeated or issued while
\* an earlier one is pending, the session acquires a device stream at most
\* once and never owns more than one unreleased stream.
C12_OneStreamPerSession ==
  Len(streams) <= 1 /\ Cardinality(LiveStreams) <= 1

\* C13: in every reachable state a device stream is bound to the session
\* only if the has-access flag is true.
C13_StreamBoundOnlyIfGranted == streamRef # 0 => hasPermissions

\* C14: once the session is in phase stopped it stays stopped: no later
\* operation moves it to recording or paused.
C14_StoppedIsTerminal ==
  [][Phase = "stopped" => Phase' \notin {"recording", "paused"}]_vars

\* C15: the duration timer is cancelled on every exit from the session,
\* normal stop and abandonment alike: once the session is stopped or its
\* component is gone no timer is active.
C15_TimerCancelledOnExit ==
  (~mounted \/ Phase = "stopped") => timers = {}

\* some recorder has been stopped and its stop task has not run yet
Finalizing == \E r \in 1..Len(recorders) : StopPending(r)

\* C16: between the phase change to stopped and the stop task that finalizes
\* the artifact and emits the result, no start, pause, resume or tick changes
\* anything of the session; a start cannot clear or receive its chunks.
C16_StopIsAtomic ==
  [][Finalizing /\ lastOp' \in {"start", "pause", "resume", "tick"}
       => UNCHANGED progVars]_vars

\* C17: elapsed-seconds goes back to zero only in a start; no tick, pause,
\* resume, stop or requestAccess lowers it, and after a stop it keeps its
\* final value for as long as the session is stopped.
C17_ElapsedResetOnlyByStart ==
  [][/\ (Elapsed' < Elapsed => lastOp' = "start")
     /\ (Phase = "stopped" /\ lastOp' # "start" => Elapsed' = Elapsed)]_vars

\* C18: while the session is recording or paused its timer is active; a tick
\* in phase recording adds exactly 1 to elapsed-seconds, a tick in phase
\* paused leaves it unchanged, and nothing else but a start changes it, so
\* elapsed-seconds is the number of ticks in phase recording since the last
\* start.
C18_ElapsedCountsRecordingTicks ==
  /\ [](mounted /\ Phase \in {"recording", "paused"} => intervalRef \in timers)
  /\ [][/\ (lastOp' = "tick" /\ mounted /\ Phase = "recording"
              => Elapsed' = Elapsed + 1)
        /\ (lastOp' = "tick" /\ Phase = "paused" => Elapsed' = Elapsed)
        /\ (lastOp' # "start" /\ ~(lastOp' = "tick" /\ Phase = "recording")
              => Elapsed' = Elapsed)]_vars

\* the chunks of artifact b that were emitted by a recorder older than r
EarlierChunks(b, r) == {j \in 1..Len(b) : b[j].rec < r}

\* C19: a start that passes its guard leaves the chunk accumulator empty and
\* elapsed-seconds 0, and no emitted artifact contains a chunk emitted by an
\* earlier recording of the same instance.
C19_StartClearsAccumulator ==
  /\ [][lastOp' = "start" /\ StartGuard
          => chunksRef' = <<>> /\ Elapsed' = 0]_vars
  /\ [](\A i \in 1..Len(results) :
          EarlierChunks(results[i].videoBlob, results[i].rec) = {})

\* C20: no timer is active before the first start, a stop leaves no timer
\* active, and no tick changes elapsed-seconds while the session is not
\* recording.
C20_TickingFromStartToStop ==
  /\ [](recorders = <<>> => timers = {})
  /\ [][/\ (lastOp' = "stop" /\ Phase \in {"recording", "paused"}
              => timers' = {})
        /\ (lastOp' = "tick" /\ ~recordingState.isRecording
              => Elapsed' = Elapsed)]_vars

\* sequence a is a prefix of sequence b
IsPrefix(a, b) == Len(a) <= Len(b) /\ SubSeq(b, 1, Len(a)) = a

\* C21: pause discards no accumulated chunk and from then on, through
\* resume and up to stop, the accumulator only grows at its end: each step
\* taken by pause or resume leaves it as it is, and each step taken while
\* paused leaves the accumulator it found as a prefix.
C21_PauseKeepsChunks ==
  [][/\ (lastOp' \in {"pause", "resume"} => chunksRef' = chunksRef)
     /\ (Phase = "paused" => IsPrefix(chunksRef, chunksRef'))]_vars

\* C22: a requestAccess that succeeds while a stream is bound binds a fresh
\* stream and leaves the one bound before live and no longer referenced.
C22_RebindLeaksPriorStream ==
  [][lastOp' = "grant" /\ streamRef # 0
       => /\ streamRef' # streamRef
          /\ streamRef' \notin 1..Len(streams)
          /\ streams'[streamRef'] = "live"
          /\ streams'[streamRef] = "live"]_vars

\* two streams are live and the session references only the second
C22_Witness ==
  /\ lastOp = "grant" /\ prePhase = "ready"
  /\ streamRef = 2 /\ LiveStreams = {1, 2}

\* C23: the finalized artifact reference of the recording state is non-null
\* only while the phase is stopped.
C23_ArtifactOnlyInStopped ==
  recordingState.videoBlob # Null => Phase = "stopped"

\* C26: in every reachable state the paused flag implies the recording
\* flag, and a stop clears both.
C26_PausedImpliesRecording ==
  /\ [](recordingState.isPaused => recordingState.isRecording)
  /\ [][lastOp' = "stop" /\ StopGuard
          => ~recordingState'.isRecording /\ ~recordingState'.isPaused]_vars

\* a paused recording has been stopped and both flags are down
C26_Witness ==
  /\ lastOp = "stop" /\ prePhase = "paused"
  /\ ~recordingState.isRecording /\ ~recordingState.isPaused
  /\ recorders[mediaRecorderRef].state = "inactive"

\* the recorders that are not inactive
LiveRecorders ==
  {r \in 1..Len(recorders) : recorders[r].state # "inactive"}

\* C27: the recorder the component references is recording exactly when
\* isRecording and not isPaused, paused exactly when isRecording and
\* isPaused, and no other recorder is live.
C27_PhaseMatchesRecorder ==
  /\ (mediaRecorderRef # 0 =>
        /\ (recorders[mediaRecorderRef].state = "recording"
              <=> recordingState.isRecording /\ ~recordingState.isPaused)
        /\ (recorders[mediaRecorderRef].state = "paused"
              <=> recordingState.isRecording /\ recordingState.isPaused))
  /\ LiveRecorders \subseteq {mediaRecorderRef}

\* C24: the recording RecipeProcessor is given is exactly the value the
\* recorder emitted last, field by field: artifact, duration and timestamp,
\* nothing added, dropped or altered by handleRecordingComplete.
C24_HandoffUnchanged ==
  /\ [][results' # results
          => /\ currentRecording' = Some(results'[Len(results')])
             /\ RecipeProcessorRendered']_vars
  /\ [](RecipeProcessorRendered
          => /\ results # <<>>
             /\ RecordingProp = results[Len(results)]
             /\ DOMAIN RecordingProp = DOMAIN results[Len(results)]
             /\ RecordingProp.videoBlob = results[Len(results)].videoBlob
             /\ RecordingProp.duration = results[Len(results)].duration
             /\ RecordingProp.timestamp = results[Len(results)].timestamp)

\* RecipeProcessor shows the second recording emitted, one with chunks
C24_Witness ==
  /\ RecipeProcessorRendered /\ lastOp = "onstop"
  /\ Len(RecordingProp.videoBlob) > 0
  /\ RecordingProp.timestamp = ToISOString(2)

\* C28: in the page flow, whenever appState is 'processing' the current
\* recording is non-null, so the processing view always renders
\* RecipeProcessor, and RecipeProcessor is rendered only with a recording.
C28_ProcessingHasRecording ==
  /\ (appState = "processing"
        => currentRecording # Null /\ RecipeProcessorRendered)
  /\ (RecipeProcessorRendered => DOMAIN RecordingProp # {})

\* back from the processing view to the recorder, a second recording has
\* completed and is shown
C28_Witness ==
  /\ lastOp = "onstop" /\ appState = "processing"
  /\ Len(results) = 2 /\ currentRecording = Some(results[2])

RECURSIVE DigitsValue(_)
\* the number a sequence of digit characters denotes, -1 if one is no digit
DigitsValue(str) ==
  IF str = <<>> THEN 0
  ELSE LET last == str[Len(str)]
           d == {k \in 0..9 : DigitChars[k + 1] = last}
           rest == DigitsValue(SubSeq(str, 1, Len(str) - 1))
       IN IF d = {} \/ rest < 0 THEN (0 - 1)
          ELSE 10 * rest + (CHOOSE k \in d : TRUE)

\* C25: for every non-negative integer s, formatDuration(s) is the digits of
\* floor(s/60), padded with zeros to two digits and no further, a colon, and
\* the two digits of s mod 60, which is in 00..59.
C25_FormatDuration ==
  fmtText # <<>> =>
     LET n == Len(fmtText)
         minutes == SubSeq(fmtText, 1, n - 3)
         seconds == SubSeq(fmtText, n - 1, n)
     IN /\ n >= 5
        /\ fmtText[n - 2] = ":"
        /\ DigitsValue(minutes) = fmtSeconds \div 60
        /\ DigitsValue(seconds) = fmtSeconds % 60
        /\ DigitsValue(seconds) \in 0..59
        /\ (Len(minutes) = 2 \/ minutes[1] # "0")

\* a duration of a hundred minutes and five seconds has been formatted
C25_Witness ==
  fmtSeconds = 6005 /\ fmtText = <<"1", "0", "0", ":", "0", "5">>

\* what the write of a call added to the user's rows
RowChange(effect) ==
  CASE effect = "inserted" -> 1
    [] effect = "deleted" -> 0 - 1
    [] OTHER -> 0

\* C29: for any interleaving of handleLike invocations, the local update of
\* each invocation changes the displayed likes_count by what its write did
\* to the user's like rows: +1 only if it inserted the row, -1 only if it
\* deleted it.
C29_LikeCountFollowsRows ==
  [][\A c \in 1..Len(calls) :
        calls[c].kind = "like" /\ calls[c].pc = "respond"
                               /\ calls'[c].pc = "done"
          => recipes'.likes_count - recipes.likes_count
               = RowChange(calls[c].effect)]_vars

\* C30: the displayed likes_count and saves_count never go below zero.
C30_CountsNonNegative ==
  recipes.likes_count >= 0 /\ recipes.saves_count >= 0

====
